---- MODULE Spec2Model ----
(***************************************************************************)
(* A model of tweepy/auth.py: the OAuth 1.0a three-legged handler          *)
(* (OAuthHandler), the OAuth 2.0 PKCE handler (OAuth2Handler), the static  *)
(* bearer adapter (OAuth2Bearer) and the application-only handler          *)
(* (AppAuthHandler).                                                       *)
(*                                                                         *)
(* Python values are modelled as follows.  A str is a TLA+ string, or a    *)
(* sequence of strings where the code concatenates.  None is the string    *)
(* "None".  A dict with the keys oauth_token / oauth_token_secret is a     *)
(* record whose fields hold the value or Absent (key not in the dict).     *)
(* An exception is the sequence of exception types from the outermost      *)
(* wrapper to the innermost cause; <<>> means the call returned.           *)
(*                                                                         *)
(* Spec is one caller driving one object through its operations, each      *)
(* call one step.  ThreadSpec is two threads sharing one OAuthHandler,     *)
(* with get_authorization_url split at its accesses to the handler.        *)
(***************************************************************************)
EXTENDS Integers, Sequences, FiniteSets, TLC

\* ------------------------------------------------------------------ bounds

\* Number of distinct (oauth_token, oauth_token_secret) pairs the provider
\* may put in a response.
NumTokens == 2

\* ------------------------------------------------------------------ values

None == "None"
Absent == "<absent>"

\* A constructor argument that is neither str nor bytes.
NotAString == "<int>"

TokenNames == <<"tok1", "tok2", "tok3", "tok4">>
Tokens == {TokenNames[i] : i \in 1..NumTokens}

SecretNames == <<"sec1", "sec2", "sec3", "sec4">>
Secrets == {SecretNames[i] : i \in 1..NumTokens}

\* The oauth_verifier strings a caller may pass.
Verifiers == {"pin"}

AccessTypes == {"read"}

NoExc == <<>>

\* Mutant of TweepyException: the except clause re-raises e as it is.
TweepyException_Reraised(e) == e

\* raise TweepyException(e): the new exception carries e as its cause.
TweepyException(e) == <<"TweepyException">> \o e

EmptyDict == [oauth_token |-> Absent, oauth_token_secret |-> Absent]

\* The decoded bodies a token endpoint may answer with: one of the
\* provider's pairs, or a body that lacks one key or both.
TokenBodies ==
    {[oauth_token |-> TokenNames[i], oauth_token_secret |-> SecretNames[i]] :
        i \in 1..NumTokens}
    \cup {[oauth_token |-> TokenNames[1], oauth_token_secret |-> Absent],
          [oauth_token |-> Absent, oauth_token_secret |-> SecretNames[1]],
          EmptyDict}

\* What the provider / the transport may do with one HTTP request: no
\* answer, a refusal, or a body.
Responses ==
    {[transport |-> "ConnectionError", status |-> 0, body |-> EmptyDict]}
    \cup {[transport |-> "ok", status |-> 401, body |-> EmptyDict]}
    \cup {[transport |-> "ok", status |-> 200, body |-> b] : b \in TokenBodies}

\* ------------------------------------------------------- OAuth1 session

\* OAuth1Session(client_key, client_secret=, resource_owner_key=,
\*               resource_owner_secret=, verifier=, callback_uri=)
OAuth1Session(ck, cs, rok, ros, ver, cb) ==
    [client_key |-> ck, client_secret |-> cs,
     resource_owner_key |-> rok, resource_owner_secret |-> ros,
     verifier |-> ver, callback_uri |-> cb]

\* The request a session (or an OAuth1 signer) sends: the url, the key
\* material it is signed with, and the extra headers.
SignedRequest(sess, url, headers) ==
    [url |-> url,
     client_key |-> sess.client_key, client_secret |-> sess.client_secret,
     resource_owner_key |-> sess.resource_owner_key,
     resource_owner_secret |-> sess.resource_owner_secret,
     verifier |-> sess.verifier, callback_uri |-> sess.callback_uri,
     headers |-> headers]

\* OAuth1Session._fetch_token: POST the signed request; status >= 400 is
\* TokenRequestDenied, a body without oauth_token TokenMissing; otherwise
\* the session takes oauth_token as its resource owner key, and
\* oauth_token_secret (when present) as its secret.
FetchToken(sess, url, resp) ==
    LET sent == <<SignedRequest(sess, url, <<>>)>>
        fail(e) == [exc |-> <<e>>, oauth |-> sess, token |-> EmptyDict, sent |-> sent]
    IN  IF resp.transport # "ok" THEN fail(resp.transport)
        ELSE IF resp.status >= 400 THEN fail("TokenRequestDenied")
        ELSE IF resp.body.oauth_token = Absent THEN fail("TokenMissing")
        ELSE [exc |-> NoExc,
              oauth |-> [sess EXCEPT
                            !.resource_owner_key = resp.body.oauth_token,
                            !.resource_owner_secret =
                                IF resp.body.oauth_token_secret = Absent
                                THEN @ ELSE resp.body.oauth_token_secret],
              token |-> resp.body,
              sent |-> sent]

\* OAuth1Session.fetch_request_token(url)
fetch_request_token(sess, url, resp) == FetchToken(sess, url, resp)

\* OAuth1Session.fetch_access_token(url): without a verifier on the session
\* it raises VerifierMissing before sending anything; after a successful
\* fetch the session's verifier is reset.
fetch_access_token(sess, url, resp) ==
    IF sess.verifier = None
    THEN [exc |-> <<"VerifierMissing">>, oauth |-> sess, token |-> EmptyDict, sent |-> <<>>]
    ELSE LET r == FetchToken(sess, url, resp)
         IN  IF r.exc # NoExc THEN r
             ELSE [r EXCEPT !.oauth = [r.oauth EXCEPT !.verifier = None]]

\* OAuth1Session.authorization_url(url): the url with the session's
\* resource owner key appended as oauth_token.
authorization_url(sess, url) == url \o <<"?oauth_token=", sess.resource_owner_key>>

\* ------------------------------------------------------- OAuthHandler

OAUTH_HOST == "api.twitter.com"
OAUTH_ROOT == "/oauth/"

_get_oauth_url(endpoint) == <<"https://", OAUTH_HOST, OAUTH_ROOT, endpoint>>

\* The handler before any constructor has run.
NoOAuthHandler ==
    [constructed |-> FALSE,
     consumer_key |-> None, consumer_secret |-> None,
     access_token |-> None, access_token_secret |-> None,
     callback |-> None, username |-> None,
     request_token |-> EmptyDict,
     oauth |-> OAuth1Session(None, None, None, None, None, None)]

\* OAuthHandler.__init__
OAuthHandler_init(consumer_key, consumer_secret, callback) ==
    IF consumer_key = NotAString \/ consumer_secret = NotAString
    THEN [self |-> NoOAuthHandler, exc |-> <<"TypeError">>]
    ELSE [self |-> [constructed |-> TRUE,
                    consumer_key |-> consumer_key,
                    consumer_secret |-> consumer_secret,
                    access_token |-> None, access_token_secret |-> None,
                    callback |-> callback, username |-> None,
                    request_token |-> EmptyDict,
                    oauth |-> OAuth1Session(consumer_key, consumer_secret,
                                            None, None, None, callback)],
          exc |-> NoExc]

\* OAuthHandler.apply_auth: the OAuth1 signer.
OAuthHandler_apply_auth(self) ==
    [client_key |-> self.consumer_key,
     client_secret |-> self.consumer_secret,
     resource_owner_key |-> self.access_token,
     resource_owner_secret |-> self.access_token_secret]

\* OAuthHandler._get_request_token
OAuthHandler_get_request_token(self, access_type, resp) ==
    LET base == _get_oauth_url("request_token")
        url == IF access_type # None
               THEN base \o <<"?x_auth_access_type=", access_type>>
               ELSE base
        r == fetch_request_token(self.oauth, url, resp)
    IN  IF r.exc # NoExc
        THEN [self |-> self, exc |-> TweepyException(r.exc), ret |-> EmptyDict,
              sent |-> r.sent]
        ELSE [self |-> [self EXCEPT !.oauth = r.oauth], exc |-> NoExc,
              ret |-> r.token, sent |-> r.sent]

\* Mutant of OAuthHandler_set_access_token: key and secret are swapped.
OAuthHandler_set_access_token_Swapped(self, key, secret) ==
    [self EXCEPT !.access_token = secret, !.access_token_secret = key]

\* OAuthHandler.set_access_token
OAuthHandler_set_access_token(self, key, secret) ==
    [self EXCEPT !.access_token = key, !.access_token_secret = secret]

\* Mutant of OAuthHandler_get_authorization_url: the fetched pair is not
\* assigned to request_token.
OAuthHandler_get_authorization_url_NotStored(self, signin_with_twitter, access_type, resp) ==
    LET url == IF signin_with_twitter
               THEN _get_oauth_url("authenticate")
               ELSE _get_oauth_url("authorize")
        warned == signin_with_twitter /\ access_type # None
        r == OAuthHandler_get_request_token(self, access_type, resp)
    IN  IF r.exc # NoExc
        THEN [self |-> r.self, exc |-> TweepyException(r.exc), ret |-> <<>>,
              sent |-> r.sent, warned |-> warned]
        ELSE [self |-> r.self, exc |-> NoExc,
              ret |-> authorization_url(r.self.oauth, url),
              sent |-> r.sent, warned |-> warned]

\* Mutant of OAuthHandler_get_authorization_url: the URL is built from the
\* token the handler stored before this call.
OAuthHandler_get_authorization_url_StaleToken(self, signin_with_twitter, access_type, resp) ==
    LET url == IF signin_with_twitter
               THEN _get_oauth_url("authenticate")
               ELSE _get_oauth_url("authorize")
        warned == signin_with_twitter /\ access_type # None
        r == OAuthHandler_get_request_token(self, access_type, resp)
        self1 == [r.self EXCEPT !.request_token = r.ret]
    IN  IF r.exc # NoExc
        THEN [self |-> r.self, exc |-> TweepyException(r.exc), ret |-> <<>>,
              sent |-> r.sent, warned |-> warned]
        ELSE [self |-> self1, exc |-> NoExc,
              ret |-> url \o <<"?oauth_token=",
                               IF self.request_token.oauth_token = Absent
                               THEN self1.request_token.oauth_token
                               ELSE self.request_token.oauth_token>>,
              sent |-> r.sent, warned |-> warned]

\* Mutant of OAuthHandler_get_authorization_url: the call that logs the
\* warning fails there, before the request token is fetched.
OAuthHandler_get_authorization_url_WarningRaises(self, signin_with_twitter, access_type, resp) ==
    LET url == IF signin_with_twitter
               THEN _get_oauth_url("authenticate")
               ELSE _get_oauth_url("authorize")
        warned == signin_with_twitter /\ access_type # None
        r == OAuthHandler_get_request_token(self, access_type, resp)
        self1 == [r.self EXCEPT !.request_token = r.ret]
    IN  IF warned
        THEN [self |-> self, exc |-> TweepyException(<<"OSError">>), ret |-> <<>>,
              sent |-> <<>>, warned |-> warned]
        ELSE IF r.exc # NoExc
        THEN [self |-> r.self, exc |-> TweepyException(r.exc), ret |-> <<>>,
              sent |-> r.sent, warned |-> warned]
        ELSE [self |-> self1, exc |-> NoExc,
              ret |-> authorization_url(self1.oauth, url),
              sent |-> r.sent, warned |-> warned]

\* OAuthHandler.get_authorization_url
OAuthHandler_get_authorization_url(self, signin_with_twitter, access_type, resp) ==
    LET url == IF signin_with_twitter
               THEN _get_oauth_url("authenticate")
               ELSE _get_oauth_url("authorize")
        warned == signin_with_twitter /\ access_type # None
        r == OAuthHandler_get_request_token(self, access_type, resp)
        self1 == [r.self EXCEPT !.request_token = r.ret]
    IN  IF r.exc # NoExc
        THEN [self |-> r.self, exc |-> TweepyException(r.exc), ret |-> <<>>,
              sent |-> r.sent, warned |-> warned]
        ELSE [self |-> self1, exc |-> NoExc,
              ret |-> authorization_url(self1.oauth, url),
              sent |-> r.sent, warned |-> warned]

\* Mutant of OAuthHandler_get_access_token: the request is signed with the
\* token the session currently holds, not with request_token.
OAuthHandler_get_access_token_SessionToken(self, verifier, resp) ==
    LET url == _get_oauth_url("access_token")
        rt == self.request_token
        sess == OAuth1Session(self.consumer_key, self.consumer_secret,
                              self.oauth.resource_owner_key,
                              self.oauth.resource_owner_secret,
                              verifier, self.callback)
        r == fetch_access_token(sess, url, resp)
        self1 == [self EXCEPT !.oauth = r.oauth]
        self2 == [self1 EXCEPT !.access_token = r.token.oauth_token]
        self3 == [self2 EXCEPT !.access_token_secret = r.token.oauth_token_secret]
    IN  IF rt.oauth_token = Absent \/ rt.oauth_token_secret = Absent
        THEN [self |-> self, exc |-> TweepyException(<<"KeyError">>),
              ret |-> <<>>, sent |-> <<>>]
        ELSE IF r.exc # NoExc
        THEN [self |-> self1, exc |-> TweepyException(r.exc),
              ret |-> <<>>, sent |-> r.sent]
        ELSE IF r.token.oauth_token_secret = Absent
        THEN [self |-> self2, exc |-> TweepyException(<<"KeyError">>),
              ret |-> <<>>, sent |-> r.sent]
        ELSE [self |-> self3, exc |-> NoExc,
              ret |-> <<self3.access_token, self3.access_token_secret>>,
              sent |-> r.sent]

\* OAuthHandler.get_access_token
OAuthHandler_get_access_token(self, verifier, resp) ==
    LET url == _get_oauth_url("access_token")
        rt == self.request_token
        sess == OAuth1Session(self.consumer_key, self.consumer_secret,
                              rt.oauth_token, rt.oauth_token_secret,
                              verifier, self.callback)
        r == fetch_access_token(sess, url, resp)
        self1 == [self EXCEPT !.oauth = r.oauth]
        self2 == [self1 EXCEPT !.access_token = r.token.oauth_token]
        self3 == [self2 EXCEPT !.access_token_secret = r.token.oauth_token_secret]
    IN  IF rt.oauth_token = Absent \/ rt.oauth_token_secret = Absent
        THEN [self |-> self, exc |-> TweepyException(<<"KeyError">>),
              ret |-> <<>>, sent |-> <<>>]
        ELSE IF r.exc # NoExc
        THEN [self |-> self1, exc |-> TweepyException(r.exc),
              ret |-> <<>>, sent |-> r.sent]
        ELSE IF r.token.oauth_token_secret = Absent
        THEN [self |-> self2, exc |-> TweepyException(<<"KeyError">>),
              ret |-> <<>>, sent |-> r.sent]
        ELSE [self |-> self3, exc |-> NoExc,
              ret |-> <<self3.access_token, self3.access_token_secret>>,
              sent |-> r.sent]

\* urllib.parse.parse_qs applied to r.content, which is bytes: the keys and
\* the values of the result are bytes, each value a one-element list.
parse_qs(resp) ==
    LET present == {k \in {"oauth_token", "oauth_token_secret"} :
                        resp.status < 400 /\ resp.body[k] # Absent}
    IN  [key \in {<<"bytes", k>> : k \in present} |-> <<<<"bytes", resp.body[key[2]]>>>>]

\* dict.get(key): None when the key is not in the dict.
DictGet(d, key) == IF key \in DOMAIN d THEN d[key] ELSE None

\* Mutant of OAuthHandler_get_xauth_access_token: the handler remembers the
\* username and signs through its stored session, which it replaces.
OAuthHandler_get_xauth_access_token_Stateful(self, username, password, resp) ==
    LET url == _get_oauth_url("access_token")
        oauth == OAuth1Session(self.consumer_key, self.consumer_secret,
                               None, None, None, None)
        sent == <<SignedRequest(oauth, url,
                                <<"client_auth", username, password>>)>>
        self1 == [self EXCEPT !.username = username, !.oauth = oauth]
    IN  IF resp.transport # "ok"
        THEN [self |-> self1, exc |-> TweepyException(<<resp.transport>>),
              ret |-> <<>>, sent |-> sent]
        ELSE [self |-> self1, exc |-> TweepyException(<<"TypeError">>),
              ret |-> <<>>, sent |-> sent]

\* OAuthHandler.get_xauth_access_token
OAuthHandler_get_xauth_access_token(self, username, password, resp) ==
    LET url == _get_oauth_url("access_token")
        oauth == OAuth1Session(self.consumer_key, self.consumer_secret,
                               None, None, None, None)
        sent == <<SignedRequest(oauth, url,
                                <<"client_auth", username, password>>)>>
        credentials == parse_qs(resp)
        tok == DictGet(credentials, <<"str", "oauth_token">>)
        sec == DictGet(credentials, <<"str", "oauth_token_secret">>)
    IN  IF resp.transport # "ok"
        THEN [self |-> self, exc |-> TweepyException(<<resp.transport>>),
              ret |-> <<>>, sent |-> sent]
        ELSE IF tok = None \/ sec = None
        THEN [self |-> self, exc |-> TweepyException(<<"TypeError">>),
              ret |-> <<>>, sent |-> sent]
        ELSE [self |-> self, exc |-> NoExc,
              ret |-> <<tok[1], sec[1]>>, sent |-> sent]

\* ------------------------------------------------------------ SHA-256
\* hashlib.sha256, computed as FIPS 180-4 specifies.  A byte is 0..255, a
\* bytes object a sequence of bytes.

RECURSIVE Pow2(_)
Pow2(n) == IF n = 0 THEN 1 ELSE 2 * Pow2(n - 1)

RECURSIVE BitXor(_, _)
BitXor(a, b) ==
    IF a = 0 THEN b
    ELSE IF b = 0 THEN a
    ELSE ((a + b) % 2) + 2 * BitXor(a \div 2, b \div 2)

RECURSIVE BitAnd(_, _)
BitAnd(a, b) ==
    IF a = 0 \/ b = 0 THEN 0
    ELSE ((a % 2) * (b % 2)) + 2 * BitAnd(a \div 2, b \div 2)

\* A 32-bit word is <<high 16 bits, low 16 bits>>.
Xor32(x, y) == <<BitXor(x[1], y[1]), BitXor(x[2], y[2])>>
And32(x, y) == <<BitAnd(x[1], y[1]), BitAnd(x[2], y[2])>>
Not32(x) == <<65535 - x[1], 65535 - x[2]>>
Add32(x, y) ==
    LET lo == x[2] + y[2]
    IN  <<(x[1] + y[1] + (lo \div 65536)) % 65536, lo % 65536>>

RotR32(x, n) ==
    LET s == IF n >= 16 THEN <<x[2], x[1]>> ELSE x
        k == n % 16
        p == Pow2(k)
        q == Pow2(16 - k)
    IN  IF k = 0 THEN s
        ELSE <<(s[1] \div p) + (s[2] % p) * q, (s[2] \div p) + (s[1] % p) * q>>

ShR32(x, n) ==
    LET p == Pow2(n)
        q == Pow2(16 - n)
    IN  <<x[1] \div p, (x[2] \div p) + (x[1] % p) * q>>

Ch(x, y, z) == Xor32(And32(x, y), And32(Not32(x), z))
Maj(x, y, z) == Xor32(Xor32(And32(x, y), And32(x, z)), And32(y, z))
BigSigma0(x) == Xor32(Xor32(RotR32(x, 2), RotR32(x, 13)), RotR32(x, 22))
BigSigma1(x) == Xor32(Xor32(RotR32(x, 6), RotR32(x, 11)), RotR32(x, 25))
SmallSigma0(x) == Xor32(Xor32(RotR32(x, 7), RotR32(x, 18)), ShR32(x, 3))
SmallSigma1(x) == Xor32(Xor32(RotR32(x, 17), RotR32(x, 19)), ShR32(x, 10))

\* The SHA-256 round constants and initial hash value (FIPS 180-4).
Sha256K ==
    <<<<17034, 12184>>, <<28983, 17553>>, <<46528, 64463>>, <<59829, 56229>>,
     <<14678, 49755>>, <<23025, 4593>>, <<37439, 33444>>, <<43804, 24277>>,
     <<55303, 43672>>, <<4739, 23297>>, <<9265, 34238>>, <<21772, 32195>>,
     <<29374, 23924>>, <<32990, 45566>>, <<39900, 1703>>, <<49563, 61812>>,
     <<58523, 27073>>, <<61374, 18310>>, <<4033, 40390>>, <<9228, 41420>>,
     <<11753, 11375>>, <<19060, 33962>>, <<23728, 43484>>, <<30457, 35034>>,
     <<38974, 20818>>, <<43057, 50797>>, <<45059, 10184>>, <<48985, 32711>>,
     <<50912, 3059>>, <<54695, 37191>>, <<1738, 25425>>, <<5161, 10599>>,
     <<10167, 2693>>, <<11803, 8504>>, <<19756, 28156>>, <<21304, 3347>>,
     <<25866, 29524>>, <<30314, 2747>>, <<33218, 51502>>, <<37490, 11397>>,
     <<41663, 59553>>, <<43034, 26187>>, <<49739, 35696>>, <<51052, 20899>>,
     <<53650, 59417>>, <<54937, 1572>>, <<62478, 13701>>, <<4202, 41072>>,
     <<6564, 49430>>, <<7735, 27656>>, <<10056, 30540>>, <<13488, 48309>>,
     <<14620, 3251>>, <<20184, 43594>>, <<23452, 51791>>, <<26670, 28659>>,
     <<29839, 33518>>, <<30885, 25455>>, <<33992, 30740>>, <<36039, 520>>,
     <<37054, 65530>>, <<42064, 27883>>, <<48889, 41975>>, <<50801, 30962>>>>

Sha256H0 ==
    <<<<27145, 58983>>, <<47975, 44677>>, <<15470, 62322>>, <<42319, 62778>>,
     <<20750, 21119>>, <<39685, 26764>>, <<8067, 55723>>, <<23520, 52505>>>>

\* FIPS 180-4 padding: 0x80, zero bytes up to 56 mod 64, the bit length in
\* eight big-endian bytes (the messages here are shorter than 2^13 bytes).
Sha256Pad(msg) ==
    LET n == Len(msg)
        zeros == (55 - n) % 64
        bits == 8 * n
    IN  msg \o <<128>> \o [i \in 1..zeros |-> 0]
            \o <<0, 0, 0, 0, 0, 0, bits \div 256, bits % 256>>

\* The 16 big-endian words of the 64-byte block starting after offset off.
BlockWords(bytes, off) ==
    [t \in 1..16 |->
        <<bytes[off + 4 * t - 3] * 256 + bytes[off + 4 * t - 2],
          bytes[off + 4 * t - 1] * 256 + bytes[off + 4 * t]>>]

RECURSIVE Schedule(_)
Schedule(w) ==
    IF Len(w) = 64 THEN w
    ELSE LET t == Len(w) + 1
         IN  Schedule(Append(w,
                Add32(Add32(SmallSigma1(w[t - 2]), w[t - 7]),
                      Add32(SmallSigma0(w[t - 15]), w[t - 16]))))

\* One round on the working variables <<a, b, c, d, e, f, g, h>>.
Round(v, k, w) ==
    LET t1 == Add32(Add32(Add32(v[8], BigSigma1(v[5])), Ch(v[5], v[6], v[7])),
                    Add32(k, w))
        t2 == Add32(BigSigma0(v[1]), Maj(v[1], v[2], v[3]))
        a == Add32(t1, t2)
        e == Add32(v[4], t1)
    IN  <<a, v[1], v[2], v[3], e, v[5], v[6], v[7]>>

\* The working variables after each of the 64 rounds, the initial ones first.
RECURSIVE Rounds(_, _)
Rounds(vs, w) ==
    IF Len(vs) = 65 THEN vs
    ELSE LET t == Len(vs)
         IN  Rounds(Append(vs, Round(vs[t], Sha256K[t], w[t])), w)

Compress(h, words) ==
    LET v == Rounds(<<h>>, Schedule(words))[65]
    IN  [i \in 1..8 |-> Add32(h[i], v[i])]

RECURSIVE Blocks(_, _, _)
Blocks(h, bytes, off) ==
    IF off >= Len(bytes) THEN h
    ELSE Blocks(Compress(h, BlockWords(bytes, off)), bytes, off + 64)

\* hashlib.sha256(bytes).digest(): the 32 digest bytes.
sha256(msg) ==
    LET h == Blocks(Sha256H0, Sha256Pad(msg), 0)
    IN  [i \in 1..32 |->
            LET w == h[(i + 3) \div 4]
                half == IF ((i - 1) % 4) < 2 THEN w[1] ELSE w[2]
            IN  IF (i % 2) = 1 THEN half \div 256 ELSE half % 256]

\* --------------------------------------------------------------- PKCE
\* A str is a sequence of code points, so that ASCII text and its encoding
\* are sequences of the same numbers.

EqualsSign == 61

\* The URL-safe base64 alphabet: A-Z, a-z, 0-9, '-', '_'.
B64UrlChar(i) ==
    IF i < 26 THEN 65 + i
    ELSE IF i < 52 THEN 71 + i
    ELSE IF i < 62 THEN i - 4
    ELSE IF i = 62 THEN 45 ELSE 95

\* base64.urlsafe_b64encode: three bytes make four characters, the last
\* group is padded with '='.
urlsafe_b64encode(s) ==
    LET n == Len(s)
        r == n % 3
        groups == (n + 2) \div 3
        byte(i) == IF i <= n THEN s[i] ELSE 0
        group(g) == byte(3 * g - 2) * 65536 + byte(3 * g - 1) * 256 + byte(3 * g)
        sextet(g, j) == (group(g) \div Pow2(6 * (4 - j))) % 64
    IN  [k \in 1..(4 * groups) |->
            LET g == (k + 3) \div 4
                j == ((k - 1) % 4) + 1
            IN  IF g = groups /\ r # 0 /\ j > r + 1
                THEN EqualsSign
                ELSE B64UrlChar(sextet(g, j))]

\* bytes.rstrip(c)
RECURSIVE rstrip(_, _)
rstrip(s, c) ==
    IF s # <<>> /\ s[Len(s)] = c THEN rstrip(SubSeq(s, 1, Len(s) - 1), c) ELSE s

\* s[:n]
Slice(s, n) == SubSeq(s, 1, IF n < Len(s) THEN n ELSE Len(s))

\* str.encode("ASCII") of text whose code points are all below 128.
encode_ascii(s) == [i \in 1..Len(s) |-> s[i]]

\* Number of distinct outcomes of the random source (os.urandom).
NumSeeds == 2

\* os.urandom(nbytes): one of NumSeeds byte strings.
urandom(nbytes, seed) ==
    [i \in 1..nbytes |-> (seed * 89 + i * 151 + seed * i * 7) % 256]

\* secrets.token_urlsafe(nbytes)
token_urlsafe(nbytes, seed) ==
    rstrip(urlsafe_b64encode(urandom(nbytes, seed)), EqualsSign)

\* The argument of token_urlsafe and the length of the slice (line 146).
VerifierBytes == 128
VerifierLen == 128

\* Mutant of NewCodeVerifier: the text is not cut to 128 characters.
NewCodeVerifier_Uncut(seed) == token_urlsafe(VerifierBytes, seed)

\* self.code_verifier = secrets.token_urlsafe(128)[:128]
NewCodeVerifier(seed) == Slice(token_urlsafe(VerifierBytes, seed), VerifierLen)

\* Mutant of CodeChallenge: the padding is not stripped.
CodeChallenge_Padded(code_verifier) ==
    urlsafe_b64encode(sha256(encode_ascii(code_verifier)))

\* urlsafe_b64encode(sha256(code_verifier.encode("ASCII")).digest()).rstrip(b'=')
CodeChallenge(code_verifier) ==
    rstrip(urlsafe_b64encode(sha256(encode_ascii(code_verifier))), EqualsSign)

\* The verifier and the challenge of one get_authorization_url call, for
\* each outcome of the random source.
Pkce ==
    [seed \in 1..NumSeeds |->
        LET v == NewCodeVerifier(seed)
        IN  [code_verifier |-> v, code_challenge |-> CodeChallenge(v)]]

\* ------------------------------------------------------ OAuth2Handler

ClientSecrets == {None, "client_secret"}
States == {"state1"}

\* The redirect-back URLs a caller may pass to fetch_token.
AuthorizationResponses ==
    [code : {Absent, "code1"}, state : States \cup {"other_state"}]

\* What the token endpoint / the transport may do with the token request.
TokenResponses ==
    {[kind |-> k, access_token |-> Absent] :
        k \in {"ConnectionError", "InvalidGrantError", "MissingTokenError"}}
    \cup {[kind |-> "ok", access_token |-> t] : t \in Tokens}

NoOAuth2Handler ==
    [constructed |-> FALSE, client_id |-> None, redirect_uri |-> None,
     scope |-> None, auth |-> None, state |-> None, code_verifier |-> Absent]

\* Mutant of OAuth2Handler_init: the attribute code_verifier is set to None.
OAuth2Handler_init_VerifierNone(client_id, redirect_uri, scope, client_secret) ==
    [constructed |-> TRUE, client_id |-> client_id,
     redirect_uri |-> redirect_uri, scope |-> scope,
     auth |-> IF client_secret # None
              THEN <<"HTTPBasicAuth", client_id, client_secret>>
              ELSE None,
     state |-> None, code_verifier |-> None]

\* OAuth2Handler.__init__: the attribute code_verifier is not set.
OAuth2Handler_init(client_id, redirect_uri, scope, client_secret) ==
    [constructed |-> TRUE, client_id |-> client_id,
     redirect_uri |-> redirect_uri, scope |-> scope,
     auth |-> IF client_secret # None
              THEN <<"HTTPBasicAuth", client_id, client_secret>>
              ELSE None,
     state |-> None, code_verifier |-> Absent]

\* Mutant of OAuth2Handler_get_authorization_url: a verifier already stored
\* is kept, the challenge is derived from the new one.
OAuth2Handler_get_authorization_url_KeepsVerifier(self, seed, state) ==
    LET code_verifier == Pkce[seed].code_verifier
        code_challenge == Pkce[seed].code_challenge
    IN  [self |-> [self EXCEPT
                    !.code_verifier = IF @ = Absent THEN code_verifier ELSE @,
                    !.state = state],
         exc |-> NoExc,
         generated |-> code_verifier,
         ret |-> [url |-> "https://twitter.com/i/oauth2/authorize",
                  response_type |-> "code",
                  client_id |-> self.client_id,
                  redirect_uri |-> self.redirect_uri,
                  scope |-> self.scope,
                  state |-> state,
                  code_challenge |-> code_challenge,
                  code_challenge_method |-> "s256"]]

\* OAuth2Handler.get_authorization_url; OAuth2Session.authorization_url
\* generates the state, keeps it on the session and puts every keyword
\* argument into the query.
OAuth2Handler_get_authorization_url(self, seed, state) ==
    LET code_verifier == Pkce[seed].code_verifier
        code_challenge == Pkce[seed].code_challenge
    IN  [self |-> [self EXCEPT !.code_verifier = code_verifier, !.state = state],
         exc |-> NoExc,
         generated |-> code_verifier,
         ret |-> [url |-> "https://twitter.com/i/oauth2/authorize",
                  response_type |-> "code",
                  client_id |-> self.client_id,
                  redirect_uri |-> self.redirect_uri,
                  scope |-> self.scope,
                  state |-> state,
                  code_challenge |-> code_challenge,
                  code_challenge_method |-> "s256"]]

\* Mutant of OAuth2Handler_fetch_token: a failure of the token request is
\* raised as a TweepyException carrying the cause.
OAuth2Handler_fetch_token_Wrapped(self, authorization_response, resp) ==
    LET sent == <<[url |-> "https://api.twitter.com/2/oauth2/token",
                   grant_type |-> "authorization_code",
                   code |-> authorization_response.code,
                   redirect_uri |-> self.redirect_uri,
                   client_id |-> self.client_id,
                   auth |-> self.auth,
                   code_verifier |-> self.code_verifier]>>
        fail(e, s) == [self |-> self, exc |-> <<e>>, ret |-> <<>>, sent |-> s]
    IN  IF self.code_verifier = Absent THEN fail("AttributeError", <<>>)
        ELSE IF self.state # None /\ authorization_response.state # self.state
        THEN fail("MismatchingStateError", <<>>)
        ELSE IF authorization_response.code = Absent
        THEN fail("MissingCodeError", <<>>)
        ELSE IF resp.kind # "ok"
        THEN [self |-> self, exc |-> TweepyException(<<resp.kind>>),
              ret |-> <<>>, sent |-> sent]
        ELSE [self |-> self, exc |-> NoExc,
              ret |-> [access_token |-> resp.access_token],
              sent |-> sent]

\* OAuth2Handler.fetch_token; OAuth2Session.fetch_token parses the
\* redirect-back URL (state and code), sends the token request and parses
\* the answer.  Nothing is wrapped.
OAuth2Handler_fetch_token(self, authorization_response, resp) ==
    LET sent == <<[url |-> "https://api.twitter.com/2/oauth2/token",
                   grant_type |-> "authorization_code",
                   code |-> authorization_response.code,
                   redirect_uri |-> self.redirect_uri,
                   client_id |-> self.client_id,
                   auth |-> self.auth,
                   code_verifier |-> self.code_verifier]>>
        fail(e, s) == [self |-> self, exc |-> <<e>>, ret |-> <<>>, sent |-> s]
    IN  IF self.code_verifier = Absent THEN fail("AttributeError", <<>>)
        ELSE IF self.state # None /\ authorization_response.state # self.state
        THEN fail("MismatchingStateError", <<>>)
        ELSE IF authorization_response.code = Absent
        THEN fail("MissingCodeError", <<>>)
        ELSE IF resp.kind # "ok" THEN fail(resp.kind, sent)
        ELSE [self |-> self, exc |-> NoExc,
              ret |-> [access_token |-> resp.access_token],
              sent |-> sent]

\* ------------------------------------------------------- OAuth2Bearer

NoOAuth2Bearer == [constructed |-> FALSE, bearer_token |-> None]

\* OAuth2Bearer.__init__
OAuth2Bearer_init(bearer_token) ==
    [constructed |-> TRUE, bearer_token |-> bearer_token]

HeaderValues == {Absent, "old"}

\* The requests the adapter may be applied to.
Requests ==
    [url : {"https://api.twitter.com/2/tweets"},
     headers : [Authorization : HeaderValues \cup {<<"Bearer ", "stale">>},
                Accept : HeaderValues]]

\* Mutant of OAuth2Bearer_call: the headers are replaced by a dict that
\* holds the Authorization header only.
OAuth2Bearer_call_OnlyAuthorization(self, request) ==
    [self |-> self,
     ret |-> [request EXCEPT
                !.headers = [Authorization |-> <<"Bearer ", self.bearer_token>>,
                             Accept |-> Absent]]]

\* OAuth2Bearer.__call__
OAuth2Bearer_call(self, request) ==
    [self |-> self,
     ret |-> [request EXCEPT
                !.headers.Authorization = <<"Bearer ", self.bearer_token>>]]

\* ----------------------------------------------------- AppAuthHandler

APP_OAUTH_ROOT == "/oauth2/"

AppAuthHandler_get_oauth_url(endpoint) ==
    <<"https://", OAUTH_HOST, APP_OAUTH_ROOT, endpoint>>

TokenTypes == {Absent, "bearer", "mac"}

\* What the token endpoint / the transport may answer to the
\* client-credentials request: no answer, a body that is not JSON, a JSON
\* array, or a JSON object with or without token_type / access_token.
BearerResponses ==
    {[kind |-> k, token_type |-> Absent, access_token |-> Absent] :
        k \in {"ConnectionError", "not_json", "array"}}
    \cup {[kind |-> "object", token_type |-> tt, access_token |-> t] :
            tt \in TokenTypes, t \in Tokens \cup {Absent}}

NoAppAuthHandler ==
    [constructed |-> FALSE, consumer_key |-> None, consumer_secret |-> None,
     bearer_token |-> None]

\* Mutant of AppAuthHandler_init: the token type is not checked.
AppAuthHandler_init_AnyTokenType(consumer_key, consumer_secret, resp) ==
    LET sent == <<[url |-> AppAuthHandler_get_oauth_url("token"),
                   auth |-> <<consumer_key, consumer_secret>>,
                   grant_type |-> "client_credentials"]>>
        fail(e, m) == [self |-> NoAppAuthHandler, exc |-> e, message |-> m,
                       sent |-> sent]
    IN  IF resp.kind = "ConnectionError" THEN fail(<<"ConnectionError">>, <<>>)
        ELSE IF resp.kind = "not_json" THEN fail(<<"JSONDecodeError">>, <<>>)
        ELSE IF resp.kind = "array" THEN fail(<<"AttributeError">>, <<>>)
        ELSE IF resp.access_token = Absent THEN fail(<<"KeyError">>, <<>>)
        ELSE [self |-> [constructed |-> TRUE,
                        consumer_key |-> consumer_key,
                        consumer_secret |-> consumer_secret,
                        bearer_token |-> resp.access_token],
              exc |-> NoExc, message |-> <<>>, sent |-> sent]

\* AppAuthHandler.__init__
AppAuthHandler_init(consumer_key, consumer_secret, resp) ==
    LET sent == <<[url |-> AppAuthHandler_get_oauth_url("token"),
                   auth |-> <<consumer_key, consumer_secret>>,
                   grant_type |-> "client_credentials"]>>
        token_type == IF resp.token_type = Absent THEN None ELSE resp.token_type
        fail(e, m) == [self |-> NoAppAuthHandler, exc |-> e, message |-> m,
                       sent |-> sent]
    IN  IF resp.kind = "ConnectionError" THEN fail(<<"ConnectionError">>, <<>>)
        ELSE IF resp.kind = "not_json" THEN fail(<<"JSONDecodeError">>, <<>>)
        ELSE IF resp.kind = "array" THEN fail(<<"AttributeError">>, <<>>)
        ELSE IF token_type # "bearer"
        THEN fail(<<"TweepyException">>,
                  <<"Expected token_type to equal \"bearer\", but got ",
                    token_type, " instead">>)
        ELSE IF resp.access_token = Absent THEN fail(<<"KeyError">>, <<>>)
        ELSE [self |-> [constructed |-> TRUE,
                        consumer_key |-> consumer_key,
                        consumer_secret |-> consumer_secret,
                        bearer_token |-> resp.access_token],
              exc |-> NoExc, message |-> <<>>, sent |-> sent]

\* AppAuthHandler.apply_auth
AppAuthHandler_apply_auth(self) == OAuth2Bearer_init(self.bearer_token)

\* ------------------------------------------------------ state machine
\* A caller constructs one object and drives it through its operations.
\* last is the outcome of the most recent call; the other three variables
\* below the objects are history variables.

VARIABLES
    oauth_handler,          \* the OAuthHandler
    oauth2_handler,         \* the OAuth2Handler
    app_handler,            \* the AppAuthHandler
    bearer,                 \* the OAuth2Bearer
    last,                   \* the most recent call: its outcome and its requests
    exchanged,              \* request_token has been sent in an access-token request
    fetched_request_token,  \* body of the request-token answer behind request_token
    latest_verifier,        \* verifier generated by the latest OAuth2 authorization URL
    earlier_verifiers,      \* verifiers generated by the OAuth2 authorization URLs before it
    threads,                \* the threads that share the OAuthHandler: position and locals
    writer                  \* the thread that assigned request_token last (0: none)

vars ==
    <<oauth_handler, oauth2_handler, app_handler, bearer, last, exchanged,
      fetched_request_token, latest_verifier, earlier_verifiers, threads, writer>>

ConsumerKeys == {"consumer_key"}
ConsumerSecrets == {"consumer_secret"}
Callbacks == {None}
Usernames == {"user"}
Passwords == {"password"}
ClientIds == {"client_id"}
RedirectUris == {"https://app/callback"}
Scopes == {<<"tweet.read">>}

\* No request was sent, so nothing was answered.
NoResponse == [kind |-> "none"]

\* The outcome of a call: the operation and its arguments, the exception it
\* raised, what it returned, the requests it sent, what the provider or the
\* transport answered, whether it logged the warning, and the message of
\* the exception.
Outcome(op, args, exc, ret, sent, resp, warned, message) ==
    [op |-> op, args |-> args, exc |-> exc, ret |-> ret, sent |-> sent,
     resp |-> IF sent = <<>> THEN NoResponse ELSE resp,
     warned |-> warned, message |-> message]

\* The two threads that may share one OAuthHandler.
Threads == {"T1", "T2"}
NoThread == "none"

\* A thread outside any call, before its first one.  pc is its position in
\* get_authorization_url; url_local and ret are the locals of that call (the
\* endpoint url of lines 84/88, the value _get_request_token returned);
\* stored is the pair it assigned to request_token, url the URL its latest
\* completed get_authorization_url returned, sent the requests its
\* get_access_token sent since, raced whether another thread has run a
\* step since this thread fetched its request token.
ThreadStart ==
    [pc |-> "ready", url_local |-> <<>>, ret |-> EmptyDict, stored |-> EmptyDict,
     url |-> <<>>, sent |-> <<>>, raced |-> FALSE]

NothingConstructed ==
    /\ ~oauth_handler.constructed
    /\ ~oauth2_handler.constructed
    /\ ~app_handler.constructed
    /\ ~bearer.constructed

Init ==
    /\ oauth_handler = NoOAuthHandler
    /\ oauth2_handler = NoOAuth2Handler
    /\ app_handler = NoAppAuthHandler
    /\ bearer = NoOAuth2Bearer
    /\ last = Outcome("none", <<>>, NoExc, <<>>, <<>>, NoResponse, FALSE, <<>>)
    /\ exchanged = FALSE
    /\ fetched_request_token = EmptyDict
    /\ latest_verifier = Absent
    /\ earlier_verifiers = {}
    /\ threads = [t \in Threads |-> ThreadStart]
    /\ writer = NoThread

\* OAuthHandler(consumer_key, consumer_secret, callback)
New_OAuthHandler ==
    /\ NothingConstructed
    /\ \E ck \in ConsumerKeys \cup {NotAString}, cs \in ConsumerSecrets \cup {NotAString},
          cb \in Callbacks :
        LET r == OAuthHandler_init(ck, cs, cb)
        IN  /\ oauth_handler' = r.self
            /\ last' = Outcome("OAuthHandler.__init__", <<ck, cs, cb>>, r.exc,
                               <<>>, <<>>, NoResponse, FALSE, <<>>)
    /\ UNCHANGED <<oauth2_handler, app_handler, bearer, exchanged,
                   fetched_request_token, latest_verifier, earlier_verifiers,
                   threads, writer>>

\* handler.apply_auth()
Call_OAuthHandler_apply_auth ==
    /\ oauth_handler.constructed
    /\ last' = Outcome("OAuthHandler.apply_auth", <<>>, NoExc,
                       OAuthHandler_apply_auth(oauth_handler), <<>>, NoResponse, FALSE,
                       <<>>)
    /\ UNCHANGED <<oauth_handler, oauth2_handler, app_handler, bearer, exchanged,
                   fetched_request_token, latest_verifier, earlier_verifiers,
                   threads, writer>>

\* handler._get_request_token(access_type)
Call_OAuthHandler_get_request_token ==
    /\ oauth_handler.constructed
    /\ \E access_type \in AccessTypes \cup {None}, resp \in Responses :
        LET r == OAuthHandler_get_request_token(oauth_handler, access_type, resp)
        IN  /\ oauth_handler' = r.self
            /\ last' = Outcome("OAuthHandler._get_request_token", <<access_type>>,
                               r.exc, r.ret, r.sent, resp, FALSE, <<>>)
    /\ UNCHANGED <<oauth2_handler, app_handler, bearer, exchanged,
                   fetched_request_token, latest_verifier, earlier_verifiers,
                   threads, writer>>

\* handler.set_access_token(key, secret)
Call_OAuthHandler_set_access_token ==
    /\ oauth_handler.constructed
    /\ \E key \in Tokens, secret \in Secrets :
        /\ oauth_handler' = OAuthHandler_set_access_token(oauth_handler, key, secret)
        /\ last' = Outcome("OAuthHandler.set_access_token", <<key, secret>>, NoExc,
                           <<>>, <<>>, NoResponse, FALSE, <<>>)
    /\ UNCHANGED <<oauth2_handler, app_handler, bearer, exchanged,
                   fetched_request_token, latest_verifier, earlier_verifiers,
                   threads, writer>>

\* handler.get_authorization_url(signin_with_twitter, access_type)
Call_OAuthHandler_get_authorization_url ==
    /\ oauth_handler.constructed
    /\ \E signin_with_twitter \in BOOLEAN, access_type \in AccessTypes \cup {None},
          resp \in Responses :
        LET r == OAuthHandler_get_authorization_url(
                    oauth_handler, signin_with_twitter, access_type, resp)
        IN  /\ oauth_handler' = r.self
            /\ last' = Outcome("OAuthHandler.get_authorization_url",
                               <<signin_with_twitter, access_type>>,
                               r.exc, r.ret, r.sent, resp, r.warned, <<>>)
            /\ exchanged' = IF r.exc = NoExc THEN FALSE ELSE exchanged
            /\ fetched_request_token' =
                    IF r.exc = NoExc THEN resp.body ELSE fetched_request_token
    /\ UNCHANGED <<oauth2_handler, app_handler, bearer, latest_verifier,
                   earlier_verifiers,
                   threads, writer>>

\* handler.get_access_token(verifier)
Call_OAuthHandler_get_access_token ==
    /\ oauth_handler.constructed
    /\ \E verifier \in Verifiers \cup {None}, resp \in Responses :
        LET r == OAuthHandler_get_access_token(oauth_handler, verifier, resp)
        IN  /\ oauth_handler' = r.self
            /\ last' = Outcome("OAuthHandler.get_access_token", <<verifier>>,
                               r.exc, r.ret, r.sent, resp, FALSE, <<>>)
            /\ exchanged' = (exchanged \/ r.sent # <<>>)
    /\ UNCHANGED <<oauth2_handler, app_handler, bearer, fetched_request_token,
                   latest_verifier, earlier_verifiers,
                   threads, writer>>

\* handler.get_xauth_access_token(username, password)
Call_OAuthHandler_get_xauth_access_token ==
    /\ oauth_handler.constructed
    /\ \E username \in Usernames, password \in Passwords, resp \in Responses :
        LET r == OAuthHandler_get_xauth_access_token(
                    oauth_handler, username, password, resp)
        IN  /\ oauth_handler' = r.self
            /\ last' = Outcome("OAuthHandler.get_xauth_access_token",
                               <<username, password>>,
                               r.exc, r.ret, r.sent, resp, FALSE, <<>>)
    /\ UNCHANGED <<oauth2_handler, app_handler, bearer, exchanged,
                   fetched_request_token, latest_verifier, earlier_verifiers,
                   threads, writer>>

\* OAuth2Handler(client_id=, redirect_uri=, scope=, client_secret=)
New_OAuth2Handler ==
    /\ NothingConstructed
    /\ \E client_id \in ClientIds, redirect_uri \in RedirectUris, scope \in Scopes,
          client_secret \in ClientSecrets :
        /\ oauth2_handler' =
                OAuth2Handler_init(client_id, redirect_uri, scope, client_secret)
        /\ last' = Outcome("OAuth2Handler.__init__",
                           <<client_id, redirect_uri, scope, client_secret>>,
                           NoExc, <<>>, <<>>, NoResponse, FALSE, <<>>)
    /\ UNCHANGED <<oauth_handler, app_handler, bearer, exchanged,
                   fetched_request_token, latest_verifier, earlier_verifiers,
                   threads, writer>>

\* handler.get_authorization_url()
Call_OAuth2Handler_get_authorization_url ==
    /\ oauth2_handler.constructed
    /\ \E seed \in 1..NumSeeds, state \in States :
        LET r == OAuth2Handler_get_authorization_url(oauth2_handler, seed, state)
        IN  /\ oauth2_handler' = r.self
            /\ last' = Outcome("OAuth2Handler.get_authorization_url", <<>>,
                               r.exc, r.ret, <<>>, NoResponse, FALSE, <<>>)
            /\ latest_verifier' = r.generated
    /\ earlier_verifiers' =
            IF latest_verifier = Absent THEN earlier_verifiers
            ELSE earlier_verifiers \cup {latest_verifier}
    /\ UNCHANGED <<oauth_handler, app_handler, bearer, exchanged,
                   fetched_request_token,
                   threads, writer>>

\* handler.fetch_token(authorization_response)
Call_OAuth2Handler_fetch_token ==
    /\ oauth2_handler.constructed
    /\ \E authorization_response \in AuthorizationResponses, resp \in TokenResponses :
        LET r == OAuth2Handler_fetch_token(
                    oauth2_handler, authorization_response, resp)
        IN  /\ oauth2_handler' = r.self
            /\ last' = Outcome("OAuth2Handler.fetch_token",
                               <<authorization_response>>,
                               r.exc, r.ret, r.sent, resp, FALSE, <<>>)
    /\ UNCHANGED <<oauth_handler, app_handler, bearer, exchanged,
                   fetched_request_token, latest_verifier, earlier_verifiers,
                   threads, writer>>

\* OAuth2Bearer(bearer_token)
New_OAuth2Bearer ==
    /\ NothingConstructed
    /\ \E bearer_token \in Tokens :
        /\ bearer' = OAuth2Bearer_init(bearer_token)
        /\ last' = Outcome("OAuth2Bearer.__init__", <<bearer_token>>, NoExc,
                           <<>>, <<>>, NoResponse, FALSE, <<>>)
    /\ UNCHANGED <<oauth_handler, oauth2_handler, app_handler, exchanged,
                   fetched_request_token, latest_verifier, earlier_verifiers,
                   threads, writer>>

\* bearer(request)
Call_OAuth2Bearer_call ==
    /\ bearer.constructed
    /\ \E request \in Requests :
        LET r == OAuth2Bearer_call(bearer, request)
        IN  /\ bearer' = r.self
            /\ last' = Outcome("OAuth2Bearer.__call__", <<request>>, NoExc,
                               r.ret, <<>>, NoResponse, FALSE, <<>>)
    /\ UNCHANGED <<oauth_handler, oauth2_handler, app_handler, exchanged,
                   fetched_request_token, latest_verifier, earlier_verifiers,
                   threads, writer>>

\* AppAuthHandler(consumer_key, consumer_secret)
New_AppAuthHandler ==
    /\ NothingConstructed
    /\ \E ck \in ConsumerKeys, cs \in ConsumerSecrets, resp \in BearerResponses :
        LET r == AppAuthHandler_init(ck, cs, resp)
        IN  /\ app_handler' = r.self
            /\ last' = Outcome("AppAuthHandler.__init__", <<ck, cs>>, r.exc,
                               <<>>, r.sent, resp, FALSE, r.message)
    /\ UNCHANGED <<oauth_handler, oauth2_handler, bearer, exchanged,
                   fetched_request_token, latest_verifier, earlier_verifiers,
                   threads, writer>>

\* handler.apply_auth()
Call_AppAuthHandler_apply_auth ==
    /\ app_handler.constructed
    /\ bearer' = AppAuthHandler_apply_auth(app_handler)
    /\ last' = Outcome("AppAuthHandler.apply_auth", <<>>, NoExc,
                       AppAuthHandler_apply_auth(app_handler), <<>>, NoResponse, FALSE,
                       <<>>)
    /\ UNCHANGED <<oauth_handler, oauth2_handler, app_handler, exchanged,
                   fetched_request_token, latest_verifier, earlier_verifiers,
                   threads, writer>>

Next ==
    \/ New_OAuthHandler
    \/ Call_OAuthHandler_apply_auth
    \/ Call_OAuthHandler_get_request_token
    \/ Call_OAuthHandler_set_access_token
    \/ Call_OAuthHandler_get_authorization_url
    \/ Call_OAuthHandler_get_access_token
    \/ Call_OAuthHandler_get_xauth_access_token
    \/ New_OAuth2Handler
    \/ Call_OAuth2Handler_get_authorization_url
    \/ Call_OAuth2Handler_fetch_token
    \/ New_OAuth2Bearer
    \/ Call_OAuth2Bearer_call
    \/ New_AppAuthHandler
    \/ Call_AppAuthHandler_apply_auth

Spec == Init /\ [][Next]_vars

\* ------------------------------------------- two threads, one handler
\* Two threads drive the flow on one OAuthHandler.  get_authorization_url
\* runs in three steps, one for each access to the shared handler: the
\* request-token fetch on self.oauth (line 89, right-hand side), the
\* assignment to self.request_token (line 89) and the read of self.oauth
\* by authorization_url (line 90).  The other thread may run between them.
\* get_access_token runs as one step.

\* Mutant of OAuthHandler_store_request_token: a request token already
\* stored is kept (first writer wins).
OAuthHandler_store_request_token_FirstWriter(self, ret) ==
    [self EXCEPT !.request_token = IF @ = EmptyDict THEN ret ELSE @]

\* self.request_token = <the value _get_request_token returned>
OAuthHandler_store_request_token(self, ret) ==
    [self EXCEPT !.request_token = ret]

\* A step of thread t: every other thread has been raced.
Raced(t, mine) ==
    [u \in Threads |-> IF u = t THEN mine ELSE [threads[u] EXCEPT !.raced = TRUE]]

\* What the provider / the transport may do with a request of either
\* thread: no answer, or one of two pairs.
ThreadResponses ==
    {r \in Responses :
        \/ r.transport # "ok"
        \/ /\ r.status = 200
           /\ r.body \in {[oauth_token |-> TokenNames[i],
                            oauth_token_secret |-> SecretNames[i]] : i \in 1..2}}

ThreadInit ==
    /\ oauth_handler \in
            {OAuthHandler_init(ck, cs, cb).self :
                ck \in ConsumerKeys, cs \in ConsumerSecrets, cb \in Callbacks}
    /\ oauth2_handler = NoOAuth2Handler
    /\ app_handler = NoAppAuthHandler
    /\ bearer = NoOAuth2Bearer
    /\ last = Outcome("OAuthHandler.__init__", <<>>, NoExc, <<>>, <<>>,
                      NoResponse, FALSE, <<>>)
    /\ exchanged = FALSE
    /\ fetched_request_token = EmptyDict
    /\ latest_verifier = Absent
    /\ earlier_verifiers = {}
    /\ threads = [t \in Threads |-> ThreadStart]
    /\ writer = NoThread

\* Lines 83-89 up to the return of _get_request_token: the endpoint is
\* chosen, the request token fetched through the shared session.  A failure
\* ends the call with a TweepyException.
Thread_get_authorization_url_fetch ==
    \E t \in Threads, signin_with_twitter \in BOOLEAN, resp \in ThreadResponses :
        LET url == IF signin_with_twitter
                   THEN _get_oauth_url("authenticate")
                   ELSE _get_oauth_url("authorize")
            r == OAuthHandler_get_request_token(oauth_handler, None, resp)
        IN  /\ threads[t].pc = "ready"
            /\ oauth_handler' = r.self
            /\ threads' =
                    Raced(t, IF r.exc # NoExc THEN threads[t]
                             ELSE [threads[t] EXCEPT
                                    !.pc = "fetched", !.url_local = url,
                                    !.ret = r.ret, !.url = <<>>,
                                    !.sent = <<>>, !.raced = FALSE])
            /\ UNCHANGED <<oauth2_handler, app_handler, bearer, last, exchanged,
                           fetched_request_token, latest_verifier,
                           earlier_verifiers, writer>>

\* Line 89, the assignment.
Thread_get_authorization_url_store ==
    \E t \in Threads :
        /\ threads[t].pc = "fetched"
        /\ oauth_handler' =
                OAuthHandler_store_request_token(oauth_handler, threads[t].ret)
        /\ threads' = Raced(t, [threads[t] EXCEPT !.pc = "stored",
                                                  !.stored = threads[t].ret])
        /\ writer' = t
        /\ UNCHANGED <<oauth2_handler, app_handler, bearer, last, exchanged,
                       fetched_request_token, latest_verifier, earlier_verifiers>>

\* Line 90: the URL is built from the token the shared session holds now.
Thread_get_authorization_url_return ==
    \E t \in Threads :
        /\ threads[t].pc = "stored"
        /\ threads' =
                Raced(t, [threads[t] EXCEPT
                            !.pc = "ready",
                            !.url = authorization_url(oauth_handler.oauth,
                                                      threads[t].url_local)])
        /\ UNCHANGED <<oauth_handler, oauth2_handler, app_handler, bearer, last,
                       exchanged, fetched_request_token, latest_verifier,
                       earlier_verifiers, writer>>

\* get_access_token(verifier), by a thread that holds an authorization URL.
Thread_get_access_token ==
    \E t \in Threads, verifier \in Verifiers, resp \in ThreadResponses :
        LET r == OAuthHandler_get_access_token(oauth_handler, verifier, resp)
        IN  /\ threads[t].pc = "ready"
            /\ threads[t].url # <<>>
            /\ oauth_handler' = r.self
            /\ threads' =
                    Raced(t, [threads[t] EXCEPT
                                !.sent = IF r.sent # <<>> THEN r.sent ELSE @])
            /\ UNCHANGED <<oauth2_handler, app_handler, bearer, last, exchanged,
                           fetched_request_token, latest_verifier,
                           earlier_verifiers, writer>>

ThreadNext ==
    \/ Thread_get_authorization_url_fetch
    \/ Thread_get_authorization_url_store
    \/ Thread_get_authorization_url_return
    \/ Thread_get_access_token

ThreadSpec == ThreadInit /\ [][ThreadNext]_vars

\* ------------------------------------------------------------- claims

OAuthFlowOps ==
    {"OAuthHandler._get_request_token", "OAuthHandler.get_authorization_url",
     "OAuthHandler.get_access_token", "OAuthHandler.get_xauth_access_token"}

Succeeded(op) == last.op = op /\ last.exc = NoExc
Failed(op) == last.op = op /\ last.exc # NoExc

\* C1: every failure of an OAuthHandler flow operation (_get_request_token,
\* get_authorization_url, get_access_token, get_xauth_access_token) is a
\* TweepyException that carries the cause, whatever the handler's state and
\* whatever failed: the transport, the protocol, an empty request_token, a
\* response without oauth_token or oauth_token_secret.
C1_FlowFailuresAreTweepyExceptions ==
    (last.op \in OAuthFlowOps /\ last.exc # NoExc)
        => (last.exc[1] = "TweepyException" /\ Len(last.exc) >= 2)

\* get_access_token on a fresh handler (request_token still empty) has
\* failed with the wrapped KeyError without sending anything.
C1_Witness ==
    /\ Failed("OAuthHandler.get_access_token")
    /\ oauth_handler.request_token = EmptyDict
    /\ last.sent = <<>>
    /\ last.exc = <<"TweepyException", "KeyError">>

\* C2: a request token is consumed by get_access_token whatever the outcome:
\* once a get_access_token has sent its access-token request, successfully
\* or not, no later get_access_token sends an access-token request signed
\* with that request token; only a get_authorization_url that fetches a new
\* request token allows the next exchange.
C2_RequestTokenConsumed ==
    [][(last'.op = "OAuthHandler.get_access_token" /\ exchanged)
            => last'.sent = <<>>]_vars

\* C3 as claimed: after a successful _get_request_token the handler's
\* request_token equals the pair the call returned.
C3_RequestTokenStepStoresPair ==
    Succeeded("OAuthHandler._get_request_token")
        => oauth_handler.request_token = last.ret

\* C3 as amended: _get_request_token returns the pair the provider answered
\* and keeps it in the handler's OAuth session (as resource owner key, and
\* secret when the answer has one); request_token is assigned only by
\* get_authorization_url, so it always equals the pair fetched by the most
\* recent successful get_authorization_url.
C3_PairStoredByAuthorizationUrl ==
    /\ oauth_handler.request_token = fetched_request_token
    /\ Succeeded("OAuthHandler._get_request_token") =>
        /\ last.ret = last.resp.body
        /\ oauth_handler.oauth.resource_owner_key = last.ret.oauth_token
        /\ last.ret.oauth_token_secret # Absent =>
            oauth_handler.oauth.resource_owner_secret = last.ret.oauth_token_secret
    /\ Succeeded("OAuthHandler.get_authorization_url") =>
        oauth_handler.request_token = last.resp.body

\* A direct _get_request_token has returned a pair that request_token does
\* not hold, after get_authorization_url had stored another one.
C3_Witness ==
    /\ Succeeded("OAuthHandler._get_request_token")
    /\ oauth_handler.request_token # EmptyDict
    /\ last.ret # oauth_handler.request_token
    /\ oauth_handler.oauth.resource_owner_key = last.ret.oauth_token

C5_SetAccessTokenReflected ==
    last.op = "OAuthHandler.set_access_token" =>
        /\ last.sent = <<>>
        /\ last.exc = NoExc
        /\ OAuthHandler_apply_auth(oauth_handler) =
            [client_key |-> oauth_handler.consumer_key,
             client_secret |-> oauth_handler.consumer_secret,
             resource_owner_key |-> last.args[1],
             resource_owner_secret |-> last.args[2]]
        /\ oauth_handler.consumer_key \in ConsumerKeys
        /\ oauth_handler.consumer_secret \in ConsumerSecrets

\* set_access_token has replaced the pair of a completed exchange: the
\* session still holds the exchanged token, the signer the injected one.
C5_Witness ==
    /\ last.op = "OAuthHandler.set_access_token"
    /\ oauth_handler.oauth.resource_owner_key \in Tokens
    /\ oauth_handler.oauth.resource_owner_key # last.args[1]
    /\ exchanged

\* C6: a successful get_access_token(verifier) sends one access-token
\* request signed with the consumer credentials, the request token stored by
\* the most recent successful get_authorization_url and the verifier; it
\* stores the pair of the answer as access_token / access_token_secret,
\* returns that pair, and apply_auth() reflects it.
C6_AccessTokenExchange ==
    Succeeded("OAuthHandler.get_access_token") =>
        /\ Len(last.sent) = 1
        /\ last.sent[1].url = _get_oauth_url("access_token")
        /\ last.sent[1].client_key = oauth_handler.consumer_key
        /\ last.sent[1].client_secret = oauth_handler.consumer_secret
        /\ fetched_request_token.oauth_token \in Tokens
        /\ fetched_request_token.oauth_token_secret \in Secrets
        /\ last.sent[1].resource_owner_key = fetched_request_token.oauth_token
        /\ last.sent[1].resource_owner_secret = fetched_request_token.oauth_token_secret
        /\ last.sent[1].verifier = last.args[1]
        /\ oauth_handler.access_token = last.resp.body.oauth_token
        /\ oauth_handler.access_token_secret = last.resp.body.oauth_token_secret
        /\ last.ret = <<last.resp.body.oauth_token, last.resp.body.oauth_token_secret>>
        /\ OAuthHandler_apply_auth(oauth_handler).resource_owner_key = last.ret[1]
        /\ OAuthHandler_apply_auth(oauth_handler).resource_owner_secret = last.ret[2]

\* An exchange has succeeded with an access token other than the request
\* token it was signed with.
C6_Witness ==
    /\ Succeeded("OAuthHandler.get_access_token")
    /\ last.sent[1].resource_owner_key # last.ret[1]
    /\ oauth_handler.access_token = last.ret[1]

\* C7: AppAuthHandler construction requires token_type "bearer": with a JSON
\* object whose token_type is anything else, or absent, it fails with a
\* TweepyException whose message names the token type received; with
\* token_type "bearer" and access_token T it succeeds, and the OAuth2Bearer
\* that apply_auth() returns sets the Authorization header to "Bearer T".
C7_BearerTokenTypeRequired ==
    (last.op = "AppAuthHandler.__init__" /\ last.resp.kind = "object") =>
        /\ last.resp.token_type # "bearer" =>
            /\ last.exc = <<"TweepyException">>
            /\ ~app_handler.constructed
            /\ Len(last.message) = 3
            /\ last.message[2] =
                (IF last.resp.token_type = Absent THEN None
                 ELSE last.resp.token_type)
        /\ (last.resp.token_type = "bearer" /\ last.resp.access_token # Absent) =>
            /\ last.exc = NoExc
            /\ app_handler.constructed
            /\ \A request \in Requests :
                OAuth2Bearer_call(AppAuthHandler_apply_auth(app_handler), request)
                    .ret.headers.Authorization
                  = <<"Bearer ", last.resp.access_token>>

\* Construction has failed on the answer {"token_type": "mac", ...}.
C7_Witness ==
    /\ last.op = "AppAuthHandler.__init__"
    /\ last.resp.kind = "object"
    /\ last.resp.token_type = "mac"
    /\ last.exc = <<"TweepyException">>
    /\ last.message[2] = "mac"

\* C8: every failure of an AppAuthHandler construction (a network error in
\* the POST, a body that is not JSON, a bearer answer without access_token)
\* is a TweepyException.
C8_ConstructionFailuresWrapped ==
    Failed("AppAuthHandler.__init__") => last.exc[1] = "TweepyException"

\* C9: whenever fetch_token sends a token request, it carries, unmodified,
\* the code_verifier generated by the most recent get_authorization_url on
\* that handler; a new authorization URL replaces the stored verifier, so a
\* verifier of an earlier URL is supplied only if the random source has
\* produced it again.
C9_LatestVerifierSupplied ==
    /\ oauth2_handler.code_verifier = latest_verifier
    /\ (last.op = "OAuth2Handler.fetch_token" /\ last.sent # <<>>) =>
        /\ latest_verifier # Absent
        /\ last.sent[1].code_verifier = latest_verifier
        /\ last.sent[1].code_verifier \notin (earlier_verifiers \ {latest_verifier})

\* fetch_token has sent a token request after a second authorization URL
\* had replaced the verifier of the first.
C9_Witness ==
    /\ last.op = "OAuth2Handler.fetch_token"
    /\ last.sent # <<>>
    /\ earlier_verifiers # {}
    /\ latest_verifier \notin earlier_verifiers

\* The byte sequence a URL-safe base64 text without padding stands for.
B64UrlValue(c) ==
    IF c >= 65 /\ c <= 90 THEN c - 65
    ELSE IF c >= 97 /\ c <= 122 THEN c - 71
    ELSE IF c >= 48 /\ c <= 57 THEN c + 4
    ELSE IF c = 45 THEN 62
    ELSE IF c = 95 THEN 63 ELSE -1

B64UrlDecodeUnpadded(text) ==
    LET n == Len(text)
        nbytes == (n * 6) \div 8
        bit(k) == (B64UrlValue(text[((k - 1) \div 6) + 1])
                        \div Pow2(5 - ((k - 1) % 6))) % 2
        bits(k, m) == LET byte[i \in 0..m] ==
                            IF i = 0 THEN 0 ELSE 2 * byte[i - 1] + bit(k + i - 1)
                      IN  byte[m]
    IN  [i \in 1..nbytes |-> bits(8 * (i - 1) + 1, 8)]

\* C10: the code_challenge in the URL of every get_authorization_url call is
\* the SHA-256 digest of the verifier stored by that call, URL-safe base64
\* encoded without '=' padding, and the URL carries
\* code_challenge_method=s256.
C10_PkceChallenge ==
    last.op = "OAuth2Handler.get_authorization_url" =>
        LET challenge == last.ret.code_challenge
        IN  /\ last.ret.code_challenge_method = "s256"
            /\ oauth2_handler.code_verifier # Absent
            /\ Len(challenge) = 43
            /\ \A i \in 1..Len(challenge) : B64UrlValue(challenge[i]) >= 0
            /\ B64UrlDecodeUnpadded(challenge)
                = sha256(encode_ascii(oauth2_handler.code_verifier))

\* A second authorization URL has been built for a new verifier.
C10_Witness ==
    /\ last.op = "OAuth2Handler.get_authorization_url"
    /\ earlier_verifiers # {}
    /\ oauth2_handler.code_verifier \notin earlier_verifiers
    /\ Len(oauth2_handler.code_verifier) = VerifierLen

\* C11: OAuth2Bearer(token) applied to a request sets the Authorization
\* header to exactly "Bearer " + token, whatever the header held before,
\* leaves every other header and the rest of the request as they were,
\* returns that request, sends nothing, never fails, and leaves the stored
\* bearer token unchanged.
C11_BearerAppliedToRequest ==
    [][last'.op = "OAuth2Bearer.__call__" =>
        LET request == last'.args[1]
        IN  /\ last'.exc = NoExc
            /\ last'.sent = <<>>
            /\ bearer.bearer_token \in Tokens
            /\ last'.ret.headers.Authorization = <<"Bearer ", bearer.bearer_token>>
            /\ DOMAIN last'.ret.headers = DOMAIN request.headers
            /\ \A h \in DOMAIN request.headers \ {"Authorization"} :
                    last'.ret.headers[h] = request.headers[h]
            /\ DOMAIN last'.ret = DOMAIN request
            /\ \A f \in DOMAIN request \ {"headers"} : last'.ret[f] = request[f]
            /\ bearer' = bearer]_vars

\* The adapter has overwritten the Authorization header of a request that
\* carried another bearer token and an Accept header.
C11_Witness ==
    /\ last.op = "OAuth2Bearer.__call__"
    /\ last.args[1].headers.Authorization = <<"Bearer ", "stale">>
    /\ last.args[1].headers.Accept = "old"
    /\ last.ret.headers.Authorization = <<"Bearer ", bearer.bearer_token>>
    /\ last.ret.headers.Accept = "old"

\* C12: the two flows type their errors differently.  A failed
\* OAuth2Handler.fetch_token raises the underlying error itself, never a
\* TweepyException: when the token request was sent, exactly the transport
\* or protocol error.  A failed OAuthHandler.get_access_token raises only a
\* TweepyException, which carries the transport or protocol error as its
\* cause.
C12_ErrorTypingAsymmetric ==
    /\ Failed("OAuth2Handler.fetch_token") =>
        /\ \A i \in 1..Len(last.exc) : last.exc[i] # "TweepyException"
        /\ last.sent # <<>> => last.exc = <<last.resp.kind>>
    /\ Failed("OAuthHandler.get_access_token") =>
        /\ last.exc[1] = "TweepyException"
        /\ Len(last.exc) = 2
        /\ (last.sent # <<>> /\ last.resp.transport # "ok") =>
            last.exc = <<"TweepyException", last.resp.transport>>
        /\ (last.sent # <<>> /\ last.resp.transport = "ok"
                /\ last.resp.status >= 400) =>
            last.exc = <<"TweepyException", "TokenRequestDenied">>

\* The token request of fetch_token has met a connection failure, which
\* the caller sees as the ConnectionError itself.
C12_Witness ==
    /\ Failed("OAuth2Handler.fetch_token")
    /\ last.sent # <<>>
    /\ last.resp.kind = "ConnectionError"
    /\ last.exc = <<"ConnectionError">>

\* C13: when the answer to the xAuth request is a query string that holds
\* both oauth_token and oauth_token_secret, get_xauth_access_token succeeds
\* and returns exactly the pair (oauth_token, oauth_token_secret) of that
\* body.
C13_XAuthReturnsParsedPair ==
    (/\ last.op = "OAuthHandler.get_xauth_access_token"
     /\ last.resp.transport = "ok"
     /\ last.resp.status = 200
     /\ last.resp.body.oauth_token # Absent
     /\ last.resp.body.oauth_token_secret # Absent) =>
        /\ last.exc = NoExc
        /\ last.ret = <<last.resp.body.oauth_token, last.resp.body.oauth_token_secret>>

\* The oauth_token an authorization URL carries.
UrlToken(url) == url[Len(url)]

\* C14: two threads that share one OAuthHandler race on the stored request
\* token, and the last writer wins: request_token is always the pair that
\* the thread which assigned it last has stored.  The URL returned to a
\* thread carries a token other than the one that thread fetched, and a
\* thread's get_access_token exchanges a token other than the one in that
\* thread's own URL, only when the other thread has run in between; both
\* do happen (C14_Witness).
C14_LastWriterWins ==
    /\ writer # NoThread => oauth_handler.request_token = threads[writer].stored
    /\ \A t \in Threads :
        LET th == threads[t]
        IN  /\ (th.pc = "ready" /\ th.url # <<>>
                    /\ UrlToken(th.url) # th.ret.oauth_token) => th.raced
            /\ (th.sent # <<>> /\ th.url # <<>>
                    /\ th.sent[1].resource_owner_key # UrlToken(th.url)) => th.raced

\* The URL returned to a thread carries a token other than the one that
\* thread fetched, and a thread's get_access_token has sent a request
\* token other than the one in the URL that thread was given.
C14_Witness ==
    /\ \E t \in Threads :
        /\ threads[t].pc = "ready"
        /\ threads[t].url # <<>>
        /\ threads[t].ret.oauth_token \in Tokens
        /\ UrlToken(threads[t].url) \in Tokens
        /\ UrlToken(threads[t].url) # threads[t].ret.oauth_token
    /\ \E u \in Threads :
        /\ threads[u].sent # <<>>
        /\ threads[u].url # <<>>
        /\ UrlToken(threads[u].url) \in Tokens
        /\ threads[u].sent[1].resource_owner_key \in Tokens
        /\ threads[u].sent[1].resource_owner_key # UrlToken(threads[u].url)
    /\ oauth_handler.request_token = threads[writer].stored

\* C15: get_authorization_url builds its URL on the authenticate endpoint
\* exactly when signin_with_twitter is true and on authorize otherwise; it
\* logs the warning exactly when signin_with_twitter is true and
\* access_type is set; and the warning changes nothing else: every call
\* sends its one request-token request, and the call that warns fails or
\* succeeds, sends, and leaves the handler exactly as the
\* same call without signin_with_twitter does, and returns the URL that
\* the call without access_type returns on the same answer.
C15_EndpointAndWarning ==
    [][last'.op = "OAuthHandler.get_authorization_url" =>
        LET signin_with_twitter == last'.args[1]
            access_type == last'.args[2]
            plain == OAuthHandler_get_authorization_url(
                        oauth_handler, FALSE, access_type, last'.resp)
            untyped == OAuthHandler_get_authorization_url(
                        oauth_handler, signin_with_twitter, None, last'.resp)
        IN  /\ last'.warned = (signin_with_twitter /\ access_type # None)
            /\ Len(last'.sent) = 1
            /\ last'.exc = NoExc =>
                /\ Len(last'.ret) = 6
                /\ SubSeq(last'.ret, 1, 3) = <<"https://", OAUTH_HOST, OAUTH_ROOT>>
                /\ last'.ret[4] =
                    (IF signin_with_twitter THEN "authenticate" ELSE "authorize")
            /\ last'.exc = plain.exc
            /\ last'.sent = plain.sent
            /\ oauth_handler' = plain.self
            /\ last'.ret = untyped.ret]_vars

\* A call with signin_with_twitter and an access_type has logged the
\* warning and returned an authenticate URL for the token it fetched.
C15_Witness ==
    /\ Succeeded("OAuthHandler.get_authorization_url")
    /\ last.warned
    /\ last.args = <<TRUE, "read">>
    /\ last.ret[4] = "authenticate"
    /\ UrlToken(last.ret) = last.resp.body.oauth_token
    /\ oauth_handler.request_token = last.resp.body

\* C16: every verifier that get_authorization_url stores is exactly 128
\* characters long and made of characters of the URL-safe alphabet (A-Z,
\* a-z, 0-9, '-', '_'), on every call; the text token_urlsafe(128) yields
\* is at least 128 characters long before it is cut.
C16_VerifierLengthAndAlphabet ==
    oauth2_handler.code_verifier # Absent =>
        /\ Len(oauth2_handler.code_verifier) = 128
        /\ \A i \in 1..Len(oauth2_handler.code_verifier) :
                B64UrlValue(oauth2_handler.code_verifier[i]) >= 0
        /\ last.op = "OAuth2Handler.get_authorization_url" =>
                \A seed \in 1..NumSeeds :
                    Len(token_urlsafe(VerifierBytes, seed)) >= 128

\* A call has stored the first 128 of the 171 characters the random source
\* gave it.
C16_Witness ==
    /\ last.op = "OAuth2Handler.get_authorization_url"
    /\ \E seed \in 1..NumSeeds :
        /\ Len(token_urlsafe(VerifierBytes, seed)) = 171
        /\ oauth2_handler.code_verifier =
                SubSeq(token_urlsafe(VerifierBytes, seed), 1, 128)

\* C17: the access-token pair is updated atomically: after any
\* get_access_token call, successful or failed, access_token and
\* access_token_secret are either both the values of that call's answer or
\* both what they were before the call.
C17_AccessTokenPairAtomic ==
    [][last'.op = "OAuthHandler.get_access_token" =>
        \/ /\ oauth_handler'.access_token = oauth_handler.access_token
           /\ oauth_handler'.access_token_secret = oauth_handler.access_token_secret
        \/ /\ last'.sent # <<>>
           /\ last'.resp.transport = "ok"
           /\ oauth_handler'.access_token = last'.resp.body.oauth_token
           /\ oauth_handler'.access_token_secret = last'.resp.body.oauth_token_secret]_vars

\* C18: every request-token request that get_authorization_url sends is
\* signed with the consumer credentials only: it carries no resource-owner
\* token, no resource-owner secret and no verifier, whatever ran on the
\* handler before.
C18_RequestTokenRequestConsumerOnly ==
    (last.op = "OAuthHandler.get_authorization_url" /\ last.sent # <<>>) =>
        /\ last.sent[1].client_key = oauth_handler.consumer_key
        /\ last.sent[1].client_secret = oauth_handler.consumer_secret
        /\ last.sent[1].resource_owner_key = None
        /\ last.sent[1].resource_owner_secret = None
        /\ last.sent[1].verifier = None

\* C19: get_xauth_access_token changes no handler state: whatever the
\* answer and whether the call returns or raises, access_token,
\* access_token_secret, request_token, the stored session and every other
\* attribute are after the call what they were before it, so the signer
\* apply_auth() returns is the one it returned before.  The request the
\* call sends is signed with the consumer credentials only.
C19_XAuthChangesNoState ==
    [][last'.op = "OAuthHandler.get_xauth_access_token" =>
        /\ oauth_handler' = oauth_handler
        /\ OAuthHandler_apply_auth(oauth_handler')
            = OAuthHandler_apply_auth(oauth_handler)
        /\ Len(last'.sent) = 1
        /\ last'.sent[1].client_key = oauth_handler.consumer_key
        /\ last'.sent[1].resource_owner_key = None
        /\ last'.sent[1].verifier = None]_vars

\* get_xauth_access_token has run on a handler that holds an access-token
\* pair and a request token, with an answer that carries another pair: the
\* handler still signs with the pair it held.
C19_Witness ==
    /\ last.op = "OAuthHandler.get_xauth_access_token"
    /\ last.resp.transport = "ok"
    /\ last.resp.status = 200
    /\ last.resp.body.oauth_token \in Tokens
    /\ last.resp.body.oauth_token_secret \in Secrets
    /\ oauth_handler.access_token \in Tokens
    /\ oauth_handler.access_token # last.resp.body.oauth_token
    /\ oauth_handler.request_token # EmptyDict
    /\ oauth_handler.oauth.resource_owner_key \in Tokens
    /\ OAuthHandler_apply_auth(oauth_handler).resource_owner_key
        = oauth_handler.access_token

\* The errors of the transport and of the OAuth 2.0 protocol.
TransportOrProtocolErrors ==
    ({r.kind : r \in TokenResponses} \ {"ok"})
        \cup {"MismatchingStateError", "MissingCodeError"}

\* C20: fetch_token sends a token request only after get_authorization_url
\* has run on the same handler.  Construction stores no verifier, so a
\* fetch_token before any get_authorization_url fails without sending a
\* token request, whatever redirect URL it is given, and with an error
\* (AttributeError) that is neither a transport nor a protocol error.
C20_FetchTokenNeedsAuthorizationUrl ==
    /\ last.op = "OAuth2Handler.__init__" => oauth2_handler.code_verifier = Absent
    /\ (last.op = "OAuth2Handler.fetch_token" /\ last.sent # <<>>) =>
        latest_verifier # Absent
    /\ (last.op = "OAuth2Handler.fetch_token" /\ latest_verifier = Absent) =>
        /\ last.sent = <<>>
        /\ last.exc = <<"AttributeError">>
        /\ last.exc[1] \notin TransportOrProtocolErrors

\* fetch_token has been called with a well-formed redirect URL on a handler
\* whose get_authorization_url never ran, and has raised AttributeError.
C20_Witness ==
    /\ last.op = "OAuth2Handler.fetch_token"
    /\ latest_verifier = Absent
    /\ oauth2_handler.code_verifier = Absent
    /\ last.args[1].code = "code1"
    /\ last.exc = <<"AttributeError">>
    /\ last.sent = <<>>

====
